---- MODULE Spec2Model ----
(***************************************************************************)
(* Model of 2d/magnetic_induction/resistive_bdf2.py: the time integrator   *)
(* solve_induction (BDF1 bootstrap followed by BDF2 steps on a cached LU   *)
(* solver) and the convergence driver in __main__.                         *)
(*                                                                         *)
(* Times (T, h, dt, t, g.t) are Python floats, i.e. IEEE-754 binary64.     *)
(* They are modelled bit-exactly: a float is a record [m, e] with value    *)
(* m * 2^e, where m is either zero or a 53-bit natural number held as a    *)
(* little-endian sequence of 15-bit limbs.  Every operation rounds to      *)
(* nearest, ties to even.  All floats of the program are non-negative and  *)
(* far from the subnormal and overflow ranges.                             *)
(*                                                                         *)
(* Discrete fields (B0, B1, B2) are abstracted by the ordinal of the       *)
(* linear solve that produced their coefficients; 0 is the interpolated    *)
(* initial condition.  The external library calls (assemble, solve,        *)
(* LUSolver, errornorm, File <<) are recorded in instrumentation           *)
(* variables; each solve or factorization may raise.                       *)
(***************************************************************************)
EXTENDS Integers, Sequences, FiniteSets, TLC

\* ------------------------------------------------------------------------
\* Bounds of the model
\* ------------------------------------------------------------------------
MaxNp == 4
MaxRes == 2
MaxSave == 2

\* ------------------------------------------------------------------------
\* Natural numbers of arbitrary size: little-endian limb sequences without
\* leading zero limbs; <<>> is zero.
\* ------------------------------------------------------------------------
LimbBits == 15
LimbBase == 32768
Prec == 53

\* Limb sequences.  The recursions below are functions, so that their
\* arguments are values.
Limbs == Seq(Nat)

Pow2[n \in Nat] ==
  IF n = 0 THEN 1 ELSE 2 * Pow2[n - 1]

BNorm[a \in Limbs] ==
  IF a = <<>> THEN <<>>
  ELSE IF a[Len(a)] = 0 THEN BNorm[SubSeq(a, 1, Len(a) - 1)]
  ELSE a

Limb(a, i) ==
  IF i <= Len(a) THEN a[i] ELSE 0

BAddC[a \in Limbs, b \in Limbs, i \in Nat, c \in Nat] ==
  IF i > Len(a) /\ i > Len(b)
  THEN (IF c = 0 THEN <<>> ELSE <<c>>)
  ELSE <<(Limb(a, i) + Limb(b, i) + c) % LimbBase>>
       \o BAddC[a, b, i + 1, (Limb(a, i) + Limb(b, i) + c) \div LimbBase]

BAdd(a, b) ==
  BAddC[a, b, 1, 0]

BSubC[a \in Limbs, b \in Limbs, i \in Nat, c \in Nat] ==
  IF i > Len(a) THEN <<>>
  ELSE IF Limb(a, i) - Limb(b, i) - c < 0
       THEN <<Limb(a, i) - Limb(b, i) - c + LimbBase>> \o BSubC[a, b, i + 1, 1]
       ELSE <<Limb(a, i) - Limb(b, i) - c>> \o BSubC[a, b, i + 1, 0]

\* a - b for a >= b
BSub(a, b) ==
  BNorm[BSubC[a, b, 1, 0]]

BCmpAt[a \in Limbs, b \in Limbs, i \in Nat] ==
  IF i = 0 THEN 0
  ELSE IF a[i] < b[i] THEN -1
  ELSE IF a[i] > b[i] THEN 1
  ELSE BCmpAt[a, b, i - 1]

BCmpV[a \in Limbs, b \in Limbs] ==
  IF Len(a) < Len(b) THEN -1
  ELSE IF Len(a) > Len(b) THEN 1
  ELSE BCmpAt[a, b, Len(a)]

\* -1, 0, 1 as a < b, a = b, a > b
BCmp(a, b) ==
  BCmpV[a, b]

BMulSmallC[a \in Limbs, k \in Nat, i \in Nat, c \in Nat] ==
  IF i > Len(a)
  THEN (IF c = 0 THEN <<>> ELSE <<c>>)
  ELSE <<(a[i] * k + c) % LimbBase>>
       \o BMulSmallC[a, k, i + 1, (a[i] * k + c) \div LimbBase]

\* a * k for 0 <= k < LimbBase
BMulSmall(a, k) ==
  BNorm[BMulSmallC[a, k, 1, 0]]

ZeroLimbs(n) ==
  [j \in 1..n |-> 0]

BShiftLimbsV[a \in Limbs, n \in Nat] ==
  IF a = <<>> THEN <<>> ELSE ZeroLimbs(n) \o a

BShiftLimbs(a, n) ==
  BShiftLimbsV[a, n]

BMulAt[a \in Limbs, b \in Limbs, i \in Nat] ==
  IF i > Len(b) THEN <<>>
  ELSE BAdd(BShiftLimbs(BMulSmall(a, b[i]), i - 1), BMulAt[a, b, i + 1])

BMul(a, b) ==
  BMulAt[a, b, 1]

\* a * 2^n
BShl(a, n) ==
  BShiftLimbs(BMulSmall(a, Pow2[n % LimbBits]), n \div LimbBits)

BDivSmallAt[a \in Limbs, k \in Nat, i \in Nat, r \in Nat] ==
  IF i = 0 THEN <<>>
  ELSE Append(BDivSmallAt[a, k, i - 1, (r * LimbBase + a[i]) % k],
              (r * LimbBase + a[i]) \div k)

\* floor(a / k) for 0 < k <= LimbBase
BDivSmall(a, k) ==
  BNorm[BDivSmallAt[a, k, Len(a), 0]]

BShrV[a \in Limbs, n \in Nat] ==
  IF n \div LimbBits >= Len(a) THEN <<>>
  ELSE BDivSmall(SubSeq(a, n \div LimbBits + 1, Len(a)), Pow2[n % LimbBits])

\* floor(a / 2^n)
BShr(a, n) ==
  BShrV[a, n]

SmallBitLen[x \in Nat] ==
  IF x = 0 THEN 0 ELSE 1 + SmallBitLen[x \div 2]

BitLenV[a \in Limbs] ==
  IF a = <<>> THEN 0
  ELSE LimbBits * (Len(a) - 1) + SmallBitLen[a[Len(a)]]

BitLen(a) ==
  BitLenV[a]

BFromInt[n \in Nat] ==
  IF n = 0 THEN <<>> ELSE <<n % LimbBase>> \o BFromInt[n \div LimbBase]

BToIntAt[a \in Limbs, i \in Nat] ==
  IF i > Len(a) THEN 0 ELSE a[i] + LimbBase * BToIntAt[a, i + 1]

BToInt(a) ==
  BToIntAt[a, 1]

\* ------------------------------------------------------------------------
\* binary64 arithmetic
\* ------------------------------------------------------------------------
\* m * 2^e with m = 0 or 2^(Prec-1) <= m < 2^Prec
Floats == [m : Limbs, e : Int]

FZero == [m |-> <<>>, e |-> 0]

\* q, the leading bits of M, with c: the dropped s bits of M compared with
\* half a unit of q (-1, 0, 1)
CutQ[M \in Limbs, s \in Nat, q \in Limbs] ==
  [q |-> q, c |-> BCmp(BSub(M, BShl(q, s)), BShl(<<1>>, s - 1))]

\* M cut by its s low bits
CutV[M \in Limbs, s \in Nat] ==
  CutQ[M, s, BShr(M, s)]

Cuts == [q : Limbs, c : Int]

\* cut.q rounded up or not: to nearest, ties to even
NearestV[cut \in Cuts, sticky \in BOOLEAN] ==
  IF \/ cut.c = 1
     \/ cut.c = 0 /\ sticky
     \/ cut.c = 0 /\ ~sticky /\ cut.q[1] % 2 = 1
  THEN BAdd(cut.q, <<1>>)
  ELSE cut.q

\* a rounded mantissa of Prec or Prec + 1 bits made a float
PackV[q \in Limbs, e \in Int] ==
  IF BitLen(q) > Prec
  THEN [m |-> BShr(q, 1), e |-> e + 1]
  ELSE [m |-> q, e |-> e]

\* M of L bits, L > 0, rounded to Prec bits
FRoundL[M \in Limbs, e \in Int, sticky \in BOOLEAN, L \in Nat] ==
  IF L <= Prec
  THEN [m |-> BShl(M, Prec - L), e |-> e - (Prec - L)]
  ELSE PackV[NearestV[CutV[M, L - Prec], sticky], e + L - Prec]

FRoundV[M \in Limbs, e \in Int, sticky \in BOOLEAN] ==
  IF M = <<>> THEN FZero ELSE FRoundL[M, e, sticky, BitLen(M)]

\* The double nearest to the exact value (M + f) * 2^e, where 0 <= f < 1 and
\* sticky tells whether f > 0; round to nearest, ties to even.
FRound(M, e, sticky) ==
  FRoundV[M, e, sticky]

FromInt(n) ==
  FRound(BFromInt[n], 0, FALSE)

Min(a, b) ==
  IF a < b THEN a ELSE b

FAddV[x \in Floats, y \in Floats] ==
  IF x.m = <<>> THEN y
  ELSE IF y.m = <<>> THEN x
  ELSE FRound(BAdd(BShl(x.m, x.e - Min(x.e, y.e)),
                   BShl(y.m, y.e - Min(x.e, y.e))), Min(x.e, y.e), FALSE)

\* x + y
FAdd(x, y) ==
  FAddV[x, y]

FMulV[x \in Floats, y \in Floats] ==
  FRound(BMul(x.m, y.m), x.e + y.e, FALSE)

\* x * y
FMul(x, y) ==
  FMulV[x, y]

\* quotient and remainder of a division of mantissas
QuotRem == [q : Limbs, r : Limbs]

\* d subtracted from the doubled remainder r2, and 1 added to the doubled
\* quotient q2, when it fits
DivSub[q2 \in Limbs, r2 \in Limbs, d \in Limbs] ==
  IF BCmp(r2, d) >= 0
  THEN [q |-> BAdd(q2, <<1>>), r |-> BSub(r2, d)]
  ELSE [q |-> q2, r |-> r2]

\* One step of restoring division of st.r by d
DivStepV[st \in QuotRem, d \in Limbs] ==
  DivSub[BMulSmall(st.q, 2), BMulSmall(st.r, 2), d]

\* k further quotient bits of st.r / d, st.r < d
DivBits[st \in QuotRem, d \in Limbs, k \in Nat] ==
  IF k = 0 THEN st ELSE DivBits[DivStepV[st, d], d, k - 1]

\* mx / my as a quotient of Prec + 3 or Prec + 4 bits and a remainder
DivMant[mx \in Limbs, my \in Limbs] ==
  IF BCmp(mx, my) >= 0
  THEN DivBits[[q |-> <<1>>, r |-> BSub(mx, my)], my, Prec + 3]
  ELSE DivBits[[q |-> <<>>, r |-> mx], my, Prec + 3]

RoundQuot[qr \in QuotRem, e \in Int] ==
  FRound(qr.q, e, qr.r # <<>>)

FDivV[x \in Floats, y \in Floats] ==
  IF x.m = <<>> THEN FZero
  ELSE RoundQuot[DivMant[x.m, y.m], x.e - y.e - (Prec + 3)]

\* x / y for y > 0
FDiv(x, y) ==
  FDivV[x, y]

FLessV[x \in Floats, y \in Floats] ==
  IF y.m = <<>> THEN FALSE
  ELSE IF x.m = <<>> THEN TRUE
  ELSE IF x.e # y.e THEN x.e < y.e
  ELSE BCmp(x.m, y.m) < 0

\* x < y
FLess(x, y) ==
  FLessV[x, y]

FTruncV[x \in Floats] ==
  IF x.e >= 0 THEN BToInt(BShl(x.m, x.e))
  ELSE BToInt(BShr(x.m, 0 - x.e))

\* int(x): truncation toward zero, x >= 0
FTrunc(x) ==
  FTruncV[x]

\* pi = 0x1.921fb54442d18p+1
Pi == [m |-> <<11544, 10376, 2029, 201>>, e |-> -51]
Half == [m |-> <<0, 0, 0, 128>>, e |-> -53]
Two == [m |-> <<0, 0, 0, 128>>, e |-> -51]

\* T = 0.5*pi
T == FMul(Half, Pi)

\* default of the -s option
SaveDefault == 1000000

\* ------------------------------------------------------------------------
\* State
\* ------------------------------------------------------------------------
VARIABLES
  argsN,     \* args.N: the resolutions to sweep, in order
  itsave,    \* args.s: the save interval
  m,         \* index of the resolution being run (0 before the first)
  err_l2,    \* err_l2[i]: L2 error of resolution i
  div_l2,    \* div_l2[i]: L2 norm of the divergence of resolution i
  stdout,    \* lines printed so far
  phase,     \* MAIN, INIT, BOOTSTRAP, STEADY, DONE, EXIT, ABORTED
  raised,    \* an exception left solve_induction
  np,        \* cells per side of the current run
  N,         \* step count of the current run
  dt,        \* time step
  t,         \* accumulated time
  it,        \* step counter
  gt,        \* g.t: time parameter of the boundary data
  B0, B1, B2,\* coefficient vectors of the three time levels
  fsol,      \* fields written to sol.pvd in the current run
  Berr,      \* field written to Berr.pvd
  nMat,      \* assemblies of the BDF2 matrix in the current run
  nRhs,      \* assemblies of the BDF2 right-hand side in the current run
  solver,    \* the LUSolver holding the factorization
  solves     \* linear solves of the current run, in order

vars == <<argsN, itsave, m, err_l2, div_l2, stdout, phase, raised, np, N, dt,
          t, it, gt, B0, B1, B2, fsol, Berr, nMat, nRhs, solver, solves>>

drv == <<argsN, itsave, m, err_l2, div_l2>>
clock == <<np, N, dt, t, it>>
fields == <<B0, B1, B2>>
lin == <<nMat, nRhs, solver, solves>>

\* Function(X): a fresh field with zero coefficients
ZeroField == -1
\* interpolate(g, X) at g.t = 0: the initial condition
InitialField == 0

\* numpy.zeros entries
NoErr == [np |-> 0, field |-> ZeroField, exact |-> FZero]
NoDiv == [np |-> 0, field |-> ZeroField]
NoSolver == [run |-> 0, mat |-> 0]

Resolutions == 1..MaxNp
SaveIntervals == (1..MaxSave) \cup {SaveDefault}
ResolutionLists == UNION {[1..k -> Resolutions] : k \in 1..MaxRes}

Init ==
  /\ argsN \in ResolutionLists
  /\ itsave \in SaveIntervals
  /\ m = 0
  /\ err_l2 = [i \in 1..Len(argsN) |-> NoErr]
  /\ div_l2 = [i \in 1..Len(argsN) |-> NoDiv]
  /\ stdout = <<>>
  /\ phase = "MAIN"
  /\ raised = FALSE
  /\ np = 0 /\ N = 0 /\ dt = FZero /\ t = FZero /\ it = 0 /\ gt = FZero
  /\ B0 = ZeroField /\ B1 = ZeroField /\ B2 = ZeroField
  /\ fsol = <<>> /\ Berr = NoErr
  /\ nMat = 0 /\ nRhs = 0 /\ solver = NoSolver /\ solves = <<>>

\* ------------------------------------------------------------------------
\* solve_induction
\* ------------------------------------------------------------------------

\* Rounding to the nearest integer instead of truncating
StepCountRounded(q) ==
  FTrunc(FAdd(q, Half))

\* N = int(T/dt)
StepCount(q) ==
  FTrunc(q)

\* The loop test taken as t <= T
LoopCondInclusive(time) ==
  ~FLess(T, time)

\* while t < T
LoopCond(time) ==
  FLess(time, T)

\* The exception caught and the run treated as finished
OnSolveErrorCaught ==
  "DONE"

\* phase after a solve or factorization raises: nothing catches it
OnSolveError ==
  "ABORTED"

\* The next resolution is taken from the list and solve_induction runs up to
\* the first time step: spaces, initial condition, first snapshot, dt and N.
StartRun ==
  /\ phase \in {"MAIN", "DONE"}
  /\ m < Len(argsN)
  /\ m' = m + 1
  /\ np' = argsN[m + 1]
  /\ LET h   == FDiv(Two, FromInt(np'))
         dt0 == FMul(Half, h)
     IN  N' = StepCount(FDiv(T, dt0))
  /\ dt' = FDiv(T, FromInt(N'))
  /\ B0' = InitialField
  /\ B1' = ZeroField
  /\ B2' = B0'
  /\ fsol' = <<B2'>>
  /\ gt' = FZero
  /\ it' = 0
  /\ t' = FZero
  /\ nMat' = 0 /\ nRhs' = 0 /\ solver' = NoSolver /\ solves' = <<>>
  /\ phase' = "INIT"
  /\ UNCHANGED <<argsN, itsave, err_l2, div_l2, stdout, raised, Berr>>

\* First time step: BDF1, solved as a one-off system
Bootstrap ==
  /\ phase = "INIT"
  /\ gt' = dt
  /\ solves' = Append(solves, [kind |-> "bdf1", known |-> <<B0>>,
                               gt |-> gt', lu |-> NoSolver])
  /\ B1' = Len(solves')
  /\ it' = it + 1
  /\ t' = FAdd(t, dt)
  /\ phase' = "BOOTSTRAP"
  /\ UNCHANGED <<drv, stdout, raised, np, N, dt, B0, B2, fsol, Berr,
                 nMat, nRhs, solver>>

BootstrapFail ==
  /\ phase = "INIT"
  /\ gt' = dt
  /\ raised' = TRUE
  /\ phase' = OnSolveError
  /\ UNCHANGED <<drv, stdout, clock, fields, fsol, Berr, lin>>

\* The BDF2 forms are built, the matrix is assembled and handed to LUSolver
AssembleBDF2 ==
  /\ phase = "BOOTSTRAP"
  /\ nMat' = nMat + 1
  /\ solver' = [run |-> m, mat |-> nMat']
  /\ phase' = "STEADY"
  /\ UNCHANGED <<drv, stdout, raised, clock, gt, fields, fsol, Berr,
                 nRhs, solves>>

FactorizeFail ==
  /\ phase = "BOOTSTRAP"
  /\ nMat' = nMat + 1
  /\ raised' = TRUE
  /\ phase' = OnSolveError
  /\ UNCHANGED <<drv, stdout, clock, gt, fields, fsol, Berr,
                 nRhs, solver, solves>>

\* The boundary data left at the old time level
SetBoundaryTimeStale ==
  gt' = t

\* g.t = t + dt
SetBoundaryTime ==
  gt' = FAdd(t, dt)

\* The matrix assembled and factorized again inside the loop
AssembleRhsAndSolveAgain ==
  /\ nRhs' = nRhs + 1
  /\ nMat' = nMat + 1
  /\ solver' = [run |-> m, mat |-> nMat']
  /\ solves' = Append(solves, [kind |-> "bdf2", known |-> <<B0, B1>>,
                               gt |-> gt', lu |-> solver'])
  /\ B2' = Len(solves')

\* b = assemble(L); solver.solve(B2.vector(), b)
AssembleRhsAndSolve ==
  /\ nRhs' = nRhs + 1
  /\ solves' = Append(solves, [kind |-> "bdf2", known |-> <<B0, B1>>,
                               gt |-> gt', lu |-> solver])
  /\ B2' = Len(solves')
  /\ UNCHANGED <<nMat, solver>>

\* The two assignments in the wrong order
ShiftHistorySwapped ==
  /\ B1' = B2'
  /\ B0' = B1'

\* B0.assign(B1); B1.assign(B2)
ShiftHistory ==
  /\ B0' = B1
  /\ B1' = B2'

\* it += 1; t += dt; print
AdvanceTime ==
  /\ it' = it + 1
  /\ t' = FAdd(t, dt)
  /\ stdout' = Append(stdout, [kind |-> "step", it |-> it', dt |-> dt,
                               t |-> t'])

\* if it%itsave == 0: fsol << B2
SaveSnapshot ==
  fsol' = IF it' % itsave = 0 THEN Append(fsol, B2') ELSE fsol

\* One pass of the while loop
SteadyStep ==
  /\ phase = "STEADY"
  /\ LoopCond(t)
  /\ SetBoundaryTime
  /\ AssembleRhsAndSolve
  /\ ShiftHistory
  /\ AdvanceTime
  /\ SaveSnapshot
  /\ UNCHANGED <<drv, phase, raised, np, N, dt, Berr>>

SteadySolveFail ==
  /\ phase = "STEADY"
  /\ LoopCond(t)
  /\ SetBoundaryTime
  /\ nRhs' = nRhs + 1
  /\ raised' = TRUE
  /\ phase' = OnSolveError
  /\ UNCHANGED <<drv, stdout, clock, fields, fsol, Berr, nMat, solver,
                 solves>>

\* errornorm(Be, B2, 'l2') with Be = Expression(ge, t=t)
ErrorNorm ==
  [np |-> np, field |-> B2, exact |-> t]

\* sqrt(assemble(div(B2)**2*dx))
DivNorm ==
  [np |-> np, field |-> B2]

\* The loop has ended: error norms, error file, return to the sweep, which
\* stores and prints the pair
Finish ==
  /\ phase = "STEADY"
  /\ ~LoopCond(t)
  /\ Berr' = ErrorNorm
  /\ err_l2' = [err_l2 EXCEPT ![m] = ErrorNorm]
  /\ div_l2' = [div_l2 EXCEPT ![m] = DivNorm]
  /\ stdout' = Append(stdout, [kind |-> "np", np |-> np, div |-> div_l2'[m],
                               err |-> err_l2'[m]])
  /\ phase' = "DONE"
  /\ UNCHANGED <<argsN, itsave, m, raised, clock, gt, fields, fsol, lin>>

\* ------------------------------------------------------------------------
\* __main__ after the sweep
\* ------------------------------------------------------------------------

\* The ratio taken the other way round
Log2RatioInverted(a, i) ==
  [num |-> a[i + 1], den |-> a[i]]

\* log2 of the ratio of consecutive entries, kept symbolic
Log2Ratio(a, i) ==
  [num |-> a[i], den |-> a[i + 1]]

\* p, q of one pass of the rate loop
RatePair(i) ==
  [kind |-> "rate", p |-> Log2Ratio(err_l2, i), q |-> Log2Ratio(div_l2, i)]

\* for m in range(len(args.N)-1)
RateLines ==
  [i \in 1..(Len(argsN) - 1) |-> RatePair(i)]

ComputeRates ==
  /\ phase = "DONE"
  /\ m = Len(argsN)
  /\ stdout' = stdout \o <<[kind |-> "l2", v |-> err_l2],
                           [kind |-> "div", v |-> div_l2],
                           [kind |-> "header"]>> \o RateLines
  /\ phase' = "EXIT"
  /\ UNCHANGED <<drv, raised, clock, gt, fields, fsol, Berr, lin>>

Next ==
  \/ StartRun
  \/ Bootstrap
  \/ BootstrapFail
  \/ AssembleBDF2
  \/ FactorizeFail
  \/ SteadyStep
  \/ SteadySolveFail
  \/ Finish
  \/ ComputeRates

Spec == Init /\ [][Next]_vars

\* The program is a single thread that runs whenever it can
FairSpec == Spec /\ WF_vars(Next)

\* ------------------------------------------------------------------------
\* Properties
\* ------------------------------------------------------------------------
InRun == phase \in {"INIT", "BOOTSTRAP", "STEADY", "DONE"}
Stepped == phase \in {"BOOTSTRAP", "STEADY", "DONE"}
Lines(k) == SelectSeq(stdout, LAMBDA l : l.kind = k)
Bdf2Solves == SelectSeq(solves, LAMBDA r : r.kind = "bdf2")

\* |a - b| of two naturals
BDist(a, b) ==
  IF BCmp(a, b) >= 0 THEN BSub(a, b) ELSE BSub(b, a)

\* C1: when the while loop has exited, exactly N steps have been taken and
\* the accumulated time equals the horizon: it = N and t = T.
C1_ExactlyNSteps ==
  phase = "DONE" => (it = N /\ t = T)

\* The steps 1..N whose count is a multiple of the save interval
StepsToSave ==
  SelectSeq([i \in 1..N |-> i], LAMBDA i : i % itsave = 0)

\* C2: the snapshots of a finished run are the initial condition followed by
\* the solution of every step 1..N whose count is a multiple of the save
\* interval; with interval 1 there are N + 1 of them.
C2_SnapshotPerSavedStep ==
  phase = "DONE" =>
    /\ fsol = <<InitialField>> \o StepsToSave
    /\ itsave = 1 => Len(fsol) = N + 1

\* C3: in one run the BDF2 matrix is assembled and handed to the LU solver
\* exactly once, before the first steady solve; k steady steps cost one matrix
\* assembly and k right-hand-side assemblies, and every steady solve uses the
\* solver built in the same run.
C3_MatrixAssembledOnce ==
  /\ phase \in {"INIT", "BOOTSTRAP"} =>
       nMat = 0 /\ nRhs = 0 /\ Bdf2Solves = <<>>
  /\ phase \in {"STEADY", "DONE"} =>
       /\ nMat = 1
       /\ nRhs = Len(Bdf2Solves)
       /\ nRhs = it - 1
       /\ \A k \in 1..Len(Bdf2Solves) :
            Bdf2Solves[k].lu = [run |-> m, mat |-> 1]

C3_Witness ==
  phase = "DONE" /\ m = 2 /\ nRhs >= 2

\* C4: after bootstrap B0 is the initial data and B1 the bootstrap result;
\* every steady step leaves the field it solved in B1 and the former B1 in
\* B0, so at every step count it B1 is the solution of step it, B0 that of
\* step it - 1, and each BDF2 solve used the two most recent levels.
C4_HistoryShift ==
  /\ [](phase \in {"BOOTSTRAP", "STEADY"} =>
          /\ B1 = it
          /\ B0 = it - 1
          /\ \A k \in 2..Len(solves) : solves[k].known = <<k - 2, k - 1>>)
  /\ [][(phase = "STEADY" /\ phase' = "STEADY") =>
          (B1' = B2' /\ B0' = B1 /\ B2' = Len(solves'))]_vars

C4_Witness ==
  phase = "STEADY" /\ it = 3 /\ B0 = 2 /\ B1 = 3

\* np * pi, and n * 2^51, as naturals in units of 2^-51
NpPi == BMulSmall(Pi.m, np)
Units(n) == BShl(BFromInt[n], 51)

\* N * dt is T up to half a unit in the last place of dt per step
StepsSpanHorizon ==
  BCmp(BDist(BMulSmall(dt.m, 2 * N), BShl(T.m, T.e - dt.e + 1)),
       BFromInt[N]) <= 0

\* C5 as stated: N is T / (0.5 * (2/np)) = np * pi / 2 rounded to the nearest
\* integer, and N * dt = T.
C5_RoundedStepCount ==
  InRun =>
    /\ BCmp(Units(2 * N - 1), NpPi) <= 0
    /\ BCmp(NpPi, Units(2 * N + 1)) <= 0
    /\ FMul(FromInt(N), dt) = T

\* C5 amended: N is np * pi / 2 truncated to an integer, at least 1, and
\* dt is T / N rounded to a double, so that N * dt is T up to rounding.
C5_TruncatedStepCount ==
  InRun =>
    /\ N >= 1
    /\ BCmp(Units(2 * N), NpPi) <= 0
    /\ BCmp(NpPi, Units(2 * N + 2)) < 0
    /\ StepsSpanHorizon

C5_Witness ==
  phase = "INIT" /\ np = 3 /\ N = 4

\* C6: the sweep runs the resolutions in order and stores one record per
\* resolution, record i belonging to resolution i; after the sweep exactly
\* k - 1 rate pairs are printed, the i-th from records i and i + 1.
C6_SweepRecordsAndRates ==
  /\ \A i \in 1..Len(argsN) :
       IF i < m \/ (i = m /\ phase \in {"DONE", "EXIT"})
       THEN err_l2[i].np = argsN[i] /\ div_l2[i].np = argsN[i]
       ELSE err_l2[i] = NoErr /\ div_l2[i] = NoDiv
  /\ phase \in {"DONE", "EXIT"} =>
       /\ Len(Lines("np")) = m
       /\ \A i \in 1..m : Lines("np")[i].np = argsN[i]
  /\ phase = "EXIT" =>
       /\ m = Len(argsN)
       /\ Len(Lines("rate")) = Len(argsN) - 1
       /\ \A i \in 1..(Len(argsN) - 1) :
            LET r == Lines("rate")[i]
            IN  /\ r.p.num = err_l2[i] /\ r.p.den = err_l2[i + 1]
                /\ r.q.num = div_l2[i] /\ r.q.den = div_l2[i + 1]
                /\ r.p.num.np = argsN[i] /\ r.p.den.np = argsN[i + 1]
  /\ phase # "EXIT" => Lines("rate") = <<>>

C6_Witness ==
  phase = "EXIT" /\ Len(argsN) = 2 /\ Len(Lines("rate")) = 1

\* C7: a solve or factorization that raises ends the program: nothing runs
\* afterwards, the failed resolution has no record and no printed line, and
\* no error or rate table is printed.
C7_FailureIsFatal ==
  /\ [](raised =>
          /\ phase = "ABORTED"
          /\ err_l2[m] = NoErr /\ div_l2[m] = NoDiv
          /\ Len(Lines("np")) = m - 1
          /\ Lines("l2") = <<>> /\ Lines("div") = <<>>
          /\ Lines("rate") = <<>>)
  /\ [](phase = "ABORTED" => raised)
  /\ [][~raised]_vars

C7_Witness ==
  raised /\ phase = "ABORTED" /\ m = 2 /\ it >= 2

\* t is the sum of it steps dt, each addition rounded by at most 2^-52
NearProduct ==
  LET e0 == IF t.e < dt.e THEN t.e ELSE dt.e
  IN  BCmp(BDist(BShl(t.m, t.e - e0),
                 BMulSmall(BShl(dt.m, dt.e - e0), it)),
           BShl(BFromInt[it], 0 - 52 - e0)) <= 0

BoundaryTimeTracks ==
  /\ gt = t
  /\ solves[Len(solves)].gt = t
  /\ solves[1].gt = dt
  /\ phase = "BOOTSTRAP" => (it = 1 /\ t = dt)
  /\ phase = "DONE" => err_l2[m].exact = t

\* C8 as stated: after every completed step the boundary-data time is the
\* accumulated time t, t = it * dt, and the exact solution of DONE is taken
\* at that t.
C8_BoundaryTimeExact ==
  Stepped => (BoundaryTimeTracks /\ t = FMul(FromInt(it), dt))

\* C8 amended: after every completed step the boundary-data time is the
\* accumulated time t, t is it * dt up to the rounding of the it additions
\* (at most it * 2^-52), and the exact solution of DONE is taken at that t.
C8_BoundaryTimeTracks ==
  Stepped => (BoundaryTimeTracks /\ NearProduct)

C8_Witness ==
  phase = "DONE" /\ it >= 3 /\ gt = t /\ t # FMul(FromInt(it), dt)

\* C9: the field whose error and divergence norms are returned is the
\* solution of the last step taken, and the exact solution is taken at the
\* final time.
C9_ReturnedFieldIsLastSolve ==
  phase = "DONE" =>
    /\ err_l2[m].field = Len(solves)
    /\ div_l2[m].field = Len(solves)
    /\ err_l2[m].exact = t

PhaseOrder ==
  { <<"MAIN", "INIT">>, <<"DONE", "INIT">>, <<"INIT", "BOOTSTRAP">>,
    <<"BOOTSTRAP", "STEADY">>, <<"STEADY", "STEADY">>, <<"STEADY", "DONE">>,
    <<"DONE", "EXIT">>, <<"INIT", "ABORTED">>, <<"BOOTSTRAP", "ABORTED">>,
    <<"STEADY", "ABORTED">> }

\* C10: a run passes through INIT, BOOTSTRAP, STEADY, DONE in this order,
\* with one bootstrap solve that does not use the LU solver and precedes
\* every steady solve; steady steps are taken only while t < T and the loop
\* is left only when t >= T; nothing of the run changes after DONE; and a run
\* without a failing solve reaches DONE.
C10_RunOrderAndTermination ==
  /\ [][(<<phase, phase'>> \in PhaseOrder)]_vars
  /\ [][(phase = "STEADY" /\ phase' = "STEADY") =>
          (FLess(t, T) /\ it' = it + 1)]_vars
  /\ [][(phase = "STEADY" /\ phase' = "DONE") => ~FLess(t, T)]_vars
  /\ [][(phase = "DONE" /\ phase' = "EXIT") =>
          UNCHANGED <<clock, gt, fields, fsol, lin>>]_vars
  /\ [](Stepped =>
          /\ solves[1].kind = "bdf1" /\ solves[1].lu = NoSolver
          /\ \A k \in 2..Len(solves) :
               solves[k].kind = "bdf2" /\ solves[k].lu # NoSolver)
  /\ [](phase = "INIT" => (it = 0 /\ solves = <<>>))
  /\ (phase = "INIT") ~> (phase = "DONE" \/ raised)

C10_Witness ==
  phase = "DONE" /\ ~raised /\ it >= 2 /\ Len(solves) = it

====
